---- MODULE Spec2Model ----
(***************************************************************************)
(* Model of kraken_grid_bot.py: one thread per trading pair runs           *)
(* execute_trading_strategy once (buy, take-profit / stop-loss monitor,    *)
(* trailing-stop monitor, cooldown, profit-target check).  The threads     *)
(* share the trade log file; the exchange and Telegram are the             *)
(* environment, modelled by what they received.                            *)
(*                                                                         *)
(* Units: prices are whole USD; trade amounts are in tenths of the         *)
(* exchange's size unit (min_size * 1.2 = min_size * 12 tenths);           *)
(* percentages are whole percents and thresholds are compared after        *)
(* multiplying both sides by 100.                                          *)
(***************************************************************************)
EXTENDS Integers, Sequences, FiniteSets, TLC

\* ---------------------------------------------------------------- bounds
\* the threads of the first NumPairs pairs of trading_pairs are run
NumPairs == 2
\* the highest price the ticker reports
MaxPrice == 106
\* how many calls of a run the environment answers other than asked: orders
\* rejected by the exchange, writes of the trade log that raise, and orders
\* filled at another price than the requested one
MaxFaults == 1

\* ------------------------------------------------------ program constants
trading_pairs == <<"BTC/USD", "ETH/USD", "SOL/USD">>
take_profit_percentage == 5
stop_loss_percentage == 3
trailing_stop_percentage == 2
TARGET_PROFIT == 100

None == -1

Threads == 1..NumPairs
Pairs == {trading_pairs[i] : i \in Threads}

\* positive prices the ticker reports: around an entry at 100 they cross
\* the +5% take-profit (106), the -3% stop-loss (100 or 99 after an entry at
\* 106) and the -2% trailing stop, and 99 under a high of 100 crosses none;
\* MaxPrice adds the prices above 106
Prices == {99, 100} \cup (106..MaxPrice)
\* get_current_price: the ticker's last price, or None when the fetch fails
get_current_price == Prices \cup {None}
\* the prices place_buy_order can be given: its price check (line 162) is the
\* only place that tells a non-positive price from a low one
EntryPrices == get_current_price \cup {0}

\* minimum_trade_sizes after fetch_min_trade_sizes (whole size units)
minimum_trade_sizes == [p \in Pairs |-> IF p = "BTC/USD" THEN 5 ELSE 1]

\* get_trade_amount: min_size * 1.2, in tenths of a size unit
get_trade_amount(p) == minimum_trade_sizes[p] * 12

\* a place_sell_order sized from the balance (get_trade_amount_from_balance
\* with ample funds: twice the minimum) instead of like the buy
sell_trade_amount_FromBalance(p) == minimum_trade_sizes[p] * 20

\* place_sell_order line 182: the amount it sells
sell_trade_amount(p) == get_trade_amount(p)

VARIABLES
    started,        \* main: number of threads started so far
    pc,             \* per thread: position in execute_trading_strategy
    pair,           \* per thread: the pair argument main gives it
    buy_price,      \* per thread: buy_price (None before/without a buy)
    current_price,  \* per thread: current_price of the running monitor loop
    highest_price,  \* per thread: trailing_sell's highest_price
    stop_price,     \* per thread: trailing_sell's stop_price, times 100
    file_exists,    \* per thread: log_trade's file_exists
    ledger,         \* the trade log file, kept across runs: <<>> when it
                    \* does not exist
    orders,         \* per pair: orders the exchange received, in order
    telegram,       \* per thread: send_telegram_message calls, in order
    halted,         \* check_total_profit has returned True in some thread
    faults          \* environment: rejections, I/O errors and fills away from
                    \* the requested price so far

vars == <<started, pc, pair, buy_price, current_price, highest_price,
          stop_price, file_exists, ledger, orders, telegram, halted, faults>>

\* the rows of the trade log; the Timestamp column only tells this run's rows
\* ("now") from the rows an earlier run left in the file ("earlier")
Header ==
    [ts |-> "Timestamp", type |-> "Header", pair |-> "Pair", price |-> 0,
     amount |-> 0]
Row(type, p, price, amount) ==
    [ts |-> "now", type |-> type, pair |-> p, price |-> price,
     amount |-> amount]

\* a trade log left by an earlier run: BTC/USD bought at 100, sold by the
\* take-profit monitor at 106 and again by the trailing stop at 100
EarlierLedger ==
    << Header,
       [Row("BUY", "BTC/USD", 100, 60) EXCEPT !.ts = "earlier"],
       [Row("SELL", "BTC/USD", 106, 60) EXCEPT !.ts = "earlier"],
       [Row("SELL", "BTC/USD", 100, 60) EXCEPT !.ts = "earlier"] >>

\* an order as the exchange received it (create_limit_buy_order /
\* create_limit_sell_order), the code path that submitted it, and the
\* exchange's answer: accepted or raised, and the price it was filled at
Order(side, price, amount, ok, by) ==
    [side |-> side, price |-> price, amount |-> amount, ok |-> ok, by |-> by,
     fill |-> IF ok THEN price ELSE None]

\* the prices the exchange can fill a limit order at: the limit or better
Fills(side, price) ==
    {q \in Prices : IF side = "BUY" THEN q <= price ELSE q >= price}

\* a main that hands every thread the first pair
ThreadPair_SamePair(i) == trading_pairs[1]

\* main: the pair handed to the i-th thread
ThreadPair(i) == trading_pairs[i]

Init ==
    /\ started = 0
    /\ pc = [t \in Threads |-> "unstarted"]
    /\ pair = [t \in Threads |-> ThreadPair(t)]
    /\ buy_price = [t \in Threads |-> None]
    /\ current_price = [t \in Threads |-> None]
    /\ highest_price = [t \in Threads |-> None]
    /\ stop_price = [t \in Threads |-> None]
    /\ file_exists = [t \in Threads |-> FALSE]
    /\ ledger \in {<<>>, EarlierLedger}
    /\ orders = [p \in Pairs |-> <<>>]
    /\ telegram = [t \in Threads |-> <<>>]
    /\ halted = FALSE
    /\ faults = 0

\* main: start the next pair's thread
MainStartThread ==
    /\ started < NumPairs
    /\ started' = started + 1
    /\ pc' = [pc EXCEPT ![started + 1] = "start"]
    /\ UNCHANGED <<pair, buy_price, current_price, highest_price, stop_price,
                   file_exists, ledger, orders, telegram, halted, faults>>

\* the outcome of a call that can raise (an exchange order, the log write):
\* it succeeds, or it raises while the environment still has a fault to give
Outcome(ok) ==
    /\ ok \/ faults < MaxFaults
    /\ faults' = IF ok THEN faults ELSE faults + 1

\* the exchange's answer to an order: it raises, or it accepts the order
\* and fills it at the requested price or at another one
Answer(order, ok, fill) ==
    /\ ok \/ fill = None
    /\ ok => fill \in Fills(order.side, order.price)
    /\ (ok /\ fill = order.price) \/ faults < MaxFaults
    /\ faults' = IF ok /\ fill = order.price THEN faults ELSE faults + 1

\* a place_buy_order that tests only for a missing price
InvalidPrice_NoneOnly(price) == price = None

\* place_buy_order line 162: the prices it refuses to buy at
InvalidPrice(price) == price = None \/ price <= 0

Send(t, msgs) == telegram' = [telegram EXCEPT ![t] = @ \o msgs]

\* place_buy_order up to log_trade's file-exists check
PlaceBuyOrder(t) ==
    /\ pc[t] = "start"
    /\ \E price \in EntryPrices :
        IF InvalidPrice(price)
        THEN /\ pc' = [pc EXCEPT ![t] = "check"]
             /\ UNCHANGED <<buy_price, file_exists, orders, telegram, faults>>
        ELSE \E ok \in BOOLEAN, fill \in get_current_price :
             LET order == Order("BUY", price, get_trade_amount(pair[t]),
                                ok, "ENTRY")
             IN
             /\ Answer(order, ok, fill)
             /\ orders' = [orders EXCEPT ![pair[t]] =
                    Append(@, [order EXCEPT !.fill = fill])]
             /\ IF ok
                THEN /\ Send(t, <<"BOUGHT">>)
                     /\ buy_price' = [buy_price EXCEPT ![t] = price]
                     /\ file_exists' = [file_exists EXCEPT ![t] = ledger # <<>>]
                     /\ pc' = [pc EXCEPT ![t] = "buy_log"]
                ELSE /\ Send(t, <<"ORDER_FAILED">>)
                     /\ pc' = [pc EXCEPT ![t] = "check"]
                     /\ UNCHANGED <<buy_price, file_exists>>
    /\ UNCHANGED <<started, pair, current_price, highest_price, stop_price,
                   ledger, halted>>

\* log_trade lines 251-255: the header when the file was not seen, then the row
AppendRow(led, exists, row) ==
    led \o (IF exists THEN <<>> ELSE <<Header>>) \o <<row>>

\* the row log_trade is about to write, from the arguments of its caller
PendingRow(t) ==
    IF pc[t] = "buy_log"
    THEN Row("BUY", pair[t], buy_price[t], get_trade_amount(pair[t]))
    ELSE Row("SELL", pair[t], current_price[t], sell_trade_amount(pair[t]))

\* what the caller of log_trade sends after the write: place_sell_order's
\* except branch when the write raised, then the monitor's own announcement
AfterLogMessages(where, ok) ==
    (IF ok THEN <<>> ELSE <<"ORDER_FAILED">>)
    \o (IF where = "tp_log" THEN <<"TAKE_PROFIT">>
        ELSE IF where = "sl_log" THEN <<"STOP_LOSS">> ELSE <<>>)

\* an execute_trading_strategy without the `if buy_price:` test: monitoring
\* starts whatever place_buy_order returned
AfterLogPc_MonitorAnyway(where, ok) ==
    IF where = "buy_log" THEN "tpsl"
    ELSE IF where \in {"tp_log", "sl_log"} THEN "trail_init"
    ELSE "cooldown"

\* a cooldown counted from the buy: the thread sleeps right after its buy is
\* logged and monitors nothing
AfterLogPc_CooldownFromBuy(where, ok) ==
    IF where = "buy_log" THEN (IF ok THEN "cooldown" ELSE "check")
    ELSE IF where \in {"tp_log", "sl_log"} THEN "trail_init"
    ELSE "cooldown"

\* where the thread continues after log_trade returned or raised
AfterLogPc(where, ok) ==
    IF where = "buy_log" THEN (IF ok THEN "tpsl" ELSE "check")
    ELSE IF where \in {"tp_log", "sl_log"} THEN "trail_init"
    ELSE "cooldown"

\* log_trade's append (the write may raise, e.g. on an I/O error), then the
\* rest of place_buy_order / place_sell_order and of the monitor's branch
LogTradeWrite(t) ==
    /\ pc[t] \in {"buy_log", "tp_log", "sl_log", "trail_log"}
    /\ \E ok \in BOOLEAN :
        /\ Outcome(ok)
        /\ ledger' = IF ok THEN AppendRow(ledger, file_exists[t], PendingRow(t))
                     ELSE ledger
        /\ Send(t, AfterLogMessages(pc[t], ok))
        /\ pc' = [pc EXCEPT ![t] = AfterLogPc(pc[t], ok)]
        /\ buy_price' = [buy_price EXCEPT ![t] =
               IF pc[t] = "buy_log" /\ ~ok THEN None ELSE @]
    /\ current_price' = [current_price EXCEPT ![t] = None]
    /\ file_exists' = [file_exists EXCEPT ![t] = FALSE]
    /\ UNCHANGED <<started, pair, highest_price, stop_price, orders, halted>>

\* the exit conditions of check_take_profit_and_stop_loss, lines 229-236
TakeProfitHit(price, buy) == price * 100 >= buy * (100 + take_profit_percentage)
StopLossHit(price, buy) == price * 100 <= buy * (100 - stop_loss_percentage)

\* place_sell_order up to log_trade's file-exists check, called by a monitor
\* with reason `by`; a failed order makes the monitor announce and break
PlaceSellOrder(t, price, by, ok) ==
    /\ \E fill \in get_current_price :
         LET order == Order("SELL", price, sell_trade_amount(pair[t]), ok, by)
         IN /\ Answer(order, ok, fill)
            /\ orders' = [orders EXCEPT ![pair[t]] =
                   Append(@, [order EXCEPT !.fill = fill])]
    /\ IF ok
       THEN /\ Send(t, <<"SOLD">>)
            /\ file_exists' = [file_exists EXCEPT ![t] = ledger # <<>>]
            /\ current_price' = [current_price EXCEPT ![t] = price]
            /\ pc' = [pc EXCEPT ![t] =
                   CASE by = "TP" -> "tp_log"
                     [] by = "SL" -> "sl_log"
                     [] OTHER -> "trail_log"]
       ELSE /\ Send(t, <<"ORDER_FAILED">> \o
                       (CASE by = "TP" -> <<"TAKE_PROFIT">>
                          [] by = "SL" -> <<"STOP_LOSS">>
                          [] OTHER -> <<>>))
            /\ current_price' = [current_price EXCEPT ![t] = price]
            /\ pc' = [pc EXCEPT ![t] =
                   IF by = "TRAIL" THEN "cooldown" ELSE "trail_init"]
            /\ UNCHANGED file_exists

\* one iteration of check_take_profit_and_stop_loss's loop
TpslTick(t) ==
    /\ pc[t] = "tpsl"
    /\ \E price \in get_current_price :
        IF price = None
        THEN /\ current_price' = [current_price EXCEPT ![t] = None]
             /\ UNCHANGED <<pc, file_exists, orders, telegram, faults>>
        ELSE IF TakeProfitHit(price, buy_price[t])
        THEN \E ok \in BOOLEAN : PlaceSellOrder(t, price, "TP", ok)
        ELSE IF StopLossHit(price, buy_price[t])
        THEN \E ok \in BOOLEAN : PlaceSellOrder(t, price, "SL", ok)
        ELSE /\ current_price' = [current_price EXCEPT ![t] = price]
             /\ UNCHANGED <<pc, file_exists, orders, telegram, faults>>
    /\ UNCHANGED <<started, pair, buy_price, highest_price, stop_price,
                   ledger, halted>>

\* trailing_sell line 201 and 211: the stop price, times 100
StopPrice(highest) == highest * (100 - trailing_stop_percentage)

\* an exception that is not caught in the thread and takes the process down
CriticalError_Crash(t) == [u \in Threads |-> "done"]

\* execute_trading_strategy lines 329-333: the except branch keeps the
\* exception inside the pair's thread, which goes on to the profit check
CriticalError(t) == [pc EXCEPT ![t] = "check"]

\* trailing_sell lines 200-201: the first price read; None * float raises
\* TypeError, caught by execute_trading_strategy's except (lines 329-332)
TrailingSellInit(t) ==
    /\ pc[t] = "trail_init"
    /\ \E price \in get_current_price :
        /\ highest_price' = [highest_price EXCEPT ![t] = price]
        /\ IF price = None
           THEN /\ Send(t, <<"CRITICAL_ERROR">>)
                /\ pc' = CriticalError(t)
                /\ UNCHANGED stop_price
           ELSE /\ stop_price' = [stop_price EXCEPT ![t] = StopPrice(price)]
                /\ pc' = [pc EXCEPT ![t] = "trail"]
                /\ UNCHANGED telegram
    /\ current_price' = [current_price EXCEPT ![t] = None]
    /\ UNCHANGED <<started, pair, buy_price, file_exists, ledger, orders,
                   halted, faults>>

\* a trailing_sell that follows the price down as well as up
NewHighest_FollowPrice(price, highest) == price

\* trailing_sell lines 209-210: the high-water mark after a price
NewHighest(price, highest) == IF price > highest THEN price ELSE highest

\* one iteration of trailing_sell's loop
TrailingSellTick(t) ==
    /\ pc[t] = "trail"
    /\ \E price \in get_current_price :
        IF price = None
        THEN /\ current_price' = [current_price EXCEPT ![t] = None]
             /\ UNCHANGED <<pc, highest_price, stop_price, file_exists,
                            orders, telegram, faults>>
        ELSE LET high == NewHighest(price, highest_price[t])
                 stop == IF price > highest_price[t]
                         THEN StopPrice(high) ELSE stop_price[t]
             IN /\ highest_price' = [highest_price EXCEPT ![t] = high]
                /\ stop_price' = [stop_price EXCEPT ![t] = stop]
                /\ IF price * 100 <= stop
                   THEN \E ok \in BOOLEAN : PlaceSellOrder(t, price, "TRAIL", ok)
                   ELSE /\ current_price' = [current_price EXCEPT ![t] = price]
                        /\ UNCHANGED <<pc, file_exists, orders, telegram, faults>>
    /\ UNCHANGED <<started, pair, buy_price, ledger, halted>>

\* execute_trading_strategy lines 327-328: the cooldown sleep
Cooldown(t) ==
    /\ pc[t] = "cooldown"
    /\ pc' = [pc EXCEPT ![t] = "check"]
    /\ current_price' = [current_price EXCEPT ![t] = None]
    /\ UNCHANGED <<started, pair, buy_price, highest_price, stop_price,
                   file_exists, ledger, orders, telegram, halted, faults>>

\* check_total_profit lines 272-278: the running total over the data rows,
\* in tenths of a USD
RECURSIVE total_profit(_)
total_profit(rows) ==
    IF rows = <<>> THEN 0
    ELSE LET row == rows[Len(rows)]
             rest == total_profit(SubSeq(rows, 1, Len(rows) - 1))
         IN IF row.type = "BUY" THEN rest - row.price * row.amount
            ELSE IF row.type = "SELL" THEN rest + row.price * row.amount
            ELSE rest

\* a row whose Price column does not parse as a float (a repeated header)
Unparsable(rows) == \E i \in DOMAIN rows : rows[i].type = "Header"

\* check_total_profit: False without a file or on a parse error
check_total_profit(led) ==
    IF led = <<>> THEN FALSE
    ELSE IF Unparsable(Tail(led)) THEN FALSE
    ELSE total_profit(Tail(led)) >= TARGET_PROFIT * 10

\* an exit that ends the whole process, every thread with it
ExitThread_Process(t) == [u \in Threads |-> "done"]

\* exit() inside a thread raises SystemExit in that thread only
ExitThread(t) == [pc EXCEPT ![t] = "done"]

\* execute_trading_strategy lines 333-336
CheckTotalProfit(t) ==
    /\ pc[t] = "check"
    /\ IF check_total_profit(ledger)
       THEN /\ Send(t, <<"PROFIT_TARGET">>)
            /\ halted' = TRUE
            /\ pc' = ExitThread(t)
       ELSE /\ pc' = [pc EXCEPT ![t] = "done"]
            /\ UNCHANGED <<telegram, halted>>
    /\ UNCHANGED <<started, pair, buy_price, current_price, highest_price,
                   stop_price, file_exists, ledger, orders, faults>>

Next ==
    \/ MainStartThread
    \/ \E t \in Threads : PlaceBuyOrder(t)
    \/ \E t \in Threads : LogTradeWrite(t)
    \/ \E t \in Threads : TpslTick(t)
    \/ \E t \in Threads : TrailingSellInit(t)
    \/ \E t \in Threads : TrailingSellTick(t)
    \/ \E t \in Threads : Cooldown(t)
    \/ \E t \in Threads : CheckTotalProfit(t)

Spec == Init /\ [][Next]_vars

\* a tick of the take-profit / stop-loss monitor whose price meets an exit
\* condition
ExitTick(t) == TpslTick(t) /\ pc'[t] # "tpsl"

\* the environment keeps delivering ticks and an exit condition eventually
\* holds for every monitored position
LiveSpec == Spec /\ \A t \in Threads : WF_vars(ExitTick(t))

\* ------------------------------------------------------------------ claims
Sells(p) == {i \in DOMAIN orders[p] : orders[p][i].side = "SELL"}
Buys(p) == {i \in DOMAIN orders[p] : orders[p][i].side = "BUY"}
OkBuys(p) == {i \in Buys(p) : orders[p][i].ok}
OkSells(p) == {i \in Sells(p) : orders[p][i].ok}
Running(t) == pc[t] # "unstarted"

\* C1: every position opened by a successful buy has at most one sell order
\* submitted for it, over both monitors together.
C1_AtMostOneSellPerBuy ==
    \A p \in Pairs : Cardinality(Sells(p)) <= Cardinality(OkBuys(p))

\* the entry price of pair p's position
EntryPrice(p) == orders[p][CHOOSE i \in OkBuys(p) : TRUE].price

\* C2: for every position at most one of take-profit, stop-loss and
\* trailing-stop fires, and the one that fires is the first in the order
\* take-profit > stop-loss > trailing-stop whose condition holds at that price.
C2_SingleExitByPriority ==
    \A p \in Pairs :
        /\ Cardinality({orders[p][i].by : i \in Sells(p)}) <= 1
        /\ \A i \in Sells(p) :
             LET o == orders[p][i]
                 tp == TakeProfitHit(o.price, EntryPrice(p))
                 sl == StopLossHit(o.price, EntryPrice(p))
             IN /\ o.by = "TP" => tp
                /\ o.by = "SL" => ~tp /\ sl
                /\ o.by = "TRAIL" => ~tp /\ ~sl

\* C3: no pair has two open positions: a buy order of a pair is never
\* submitted after an earlier accepted buy of that pair unless an accepted
\* sell closed that position in between.
C3_NoTwoOpenPositions ==
    \A p \in Pairs : \A i \in OkBuys(p) : \A j \in Buys(p) :
        i < j => \E k \in OkSells(p) : i < k /\ k < j

\* C3 witness: two threads hold open, monitored positions at the same time,
\* one per pair.
C3_Witness ==
    \E t, u \in Threads :
        /\ t # u /\ pc[t] = "tpsl" /\ pc[u] = "tpsl"
        /\ pair[t] # pair[u]
        /\ OkBuys(pair[t]) # {} /\ OkBuys(pair[u]) # {}

\* C4: once check_total_profit has returned True in some thread, no thread
\* submits a buy order.
C4_NoBuyAfterHalt ==
    [][halted => \A p \in Pairs : Len(orders'[p]) > Len(orders[p]) =>
                     orders'[p][Len(orders'[p])].side # "BUY"]_vars

RECURSIVE SumOver(_, _)
SumOver(S, f) ==
    IF S = {} THEN 0
    ELSE LET x == CHOOSE y \in S : TRUE IN f[x] + SumOver(S \ {x}, f)

Min(S) == CHOOSE x \in S : \A y \in S : x <= y

\* the realized profit of pair p's position in this run: nothing unless an
\* accepted sell closed it, else (sell price - buy price) x quantity
Realized(p) ==
    IF OkBuys(p) = {} \/ OkSells(p) = {} THEN 0
    ELSE LET b == orders[p][Min(OkBuys(p))]
             c == orders[p][Min(OkSells(p))]
         IN (c.price - b.price) * b.amount

\* the realized profit of the position an earlier run closed, when the trade
\* log holds that run's rows: bought at 100, closed at 106, quantity 60
EarlierRealized ==
    IF ledger # <<>> /\ \E i \in DOMAIN ledger : ledger[i].ts = "earlier"
    THEN (EarlierLedger[3].price - EarlierLedger[2].price) * EarlierLedger[2].amount
    ELSE 0

\* C6: whenever a thread is about to run check_total_profit on a readable
\* trade log, the total it computes equals the sum over the closed positions
\* of (sell price - buy price) x quantity.
C6_ProfitIsSumOfCloses ==
    \A t \in Threads :
        (pc[t] = "check" /\ ledger # <<>> /\ ~Unparsable(Tail(ledger))) =>
            total_profit(Tail(ledger))
                = EarlierRealized + SumOver(Pairs, [p \in Pairs |-> Realized(p)])

Last(seq) == seq[Len(seq)]
Count(seq, S) == Cardinality({i \in DOMAIN seq : seq[i] \in S})

\* C7: while the last sell a monitor submitted was failed by the exchange,
\* the monitor is still in its monitoring loop and has announced no exit.
C7_FailedSellKeepsMonitoring ==
    \A t \in Threads :
        (/\ Running(t)
         /\ orders[pair[t]] # <<>>
         /\ Last(orders[pair[t]]).side = "SELL"
         /\ ~Last(orders[pair[t]]).ok) =>
            /\ pc[t] \in {"tpsl", "trail"}
            /\ Count(telegram[t], {"TAKE_PROFIT", "STOP_LOSS"}) = 0

\* C8: from one tick of trailing_sell's loop to the next, with or without a
\* price, neither the high-water price nor the stop price decreases.
C8_TrailingStopMonotone ==
    [][\A t \in Threads : pc[t] = "trail" =>
           /\ highest_price'[t] >= highest_price[t]
           /\ stop_price'[t] >= stop_price[t]]_vars

\* C8 witness: trailing_sell has seen a price below its high-water price that
\* did not reach the stop, and the stop is still the high-water's.
C8_Witness ==
    \E t \in Threads :
        /\ pc[t] = "trail"
        /\ current_price[t] # None
        /\ current_price[t] < highest_price[t]
        /\ stop_price[t] = StopPrice(highest_price[t])

\* C9: a price read that returns None in a monitor (the loops of both
\* monitors and trailing_sell's first read) submits no sell, changes neither
\* the high-water nor the stop price and leaves the thread where it was.
C9_MissingPriceKeepsMonitoring ==
    [][\A t \in Threads :
           (\/ pc[t] \in {"tpsl", "trail"} /\ current_price'[t] = None
            \/ pc[t] = "trail_init" /\ highest_price'[t] = None) =>
               /\ pc'[t] = pc[t]
               /\ orders'[pair[t]] = orders[pair[t]]
               /\ highest_price'[t] = highest_price[t]
               /\ stop_price'[t] = stop_price[t]]_vars

\* C10: every transition of a position is notified exactly once: the
\* accepted buy by one send_telegram_message call, and the accepted exit
\* sells by one call each.
C10_OneNotificationPerTransition ==
    \A t \in Threads :
        /\ OkBuys(pair[t]) # {} =>
               Count(telegram[t], {"BOUGHT"}) = Cardinality(OkBuys(pair[t]))
        /\ OkSells(pair[t]) # {} =>
               Count(telegram[t], {"SOLD", "TAKE_PROFIT", "STOP_LOSS"})
                   = Cardinality(OkSells(pair[t]))

\* a step in which something fails in thread t's pipeline: an order of its
\* pair is rejected or filled off its price, its write of the trade log
\* raises, its place_buy_order gives up, or an exception reaches the except
\* branch of its execute_trading_strategy
FailureStep(t) ==
    \/ /\ faults' # faults
       /\ pc'[t] # pc[t] \/ orders'[pair[t]] # orders[pair[t]]
    \/ pc[t] = "start" /\ pc'[t] = "check"
    \/ /\ telegram'[t] # telegram[t]
       /\ Last(telegram'[t]) \in {"ORDER_FAILED", "CRITICAL_ERROR"}

\* C11: a failure in one pair's pipeline leaves every other pair's thread
\* where it is, with its position, its prices, its orders and its
\* notifications, and leaves the trade log and the halt flag they read
\* unchanged, so the other threads go on with the steps they had.
C11_FailureLeavesOthersAlone ==
    [][\A t \in Threads : FailureStep(t) =>
           /\ \A u \in Threads \ {t} :
                  /\ pc'[u] = pc[u]
                  /\ buy_price'[u] = buy_price[u]
                  /\ current_price'[u] = current_price[u]
                  /\ highest_price'[u] = highest_price[u]
                  /\ stop_price'[u] = stop_price[u]
                  /\ file_exists'[u] = file_exists[u]
                  /\ telegram'[u] = telegram[u]
                  /\ orders'[pair[u]] = orders[pair[u]]
           /\ ledger' = ledger
           /\ halted' = halted]_vars

\* C11 witness: one thread has ended after an exception in its pipeline
\* while another thread is monitoring the position it bought.
C11_Witness ==
    \E t \in Threads : \E u \in Threads \ {t} :
        /\ Count(telegram[t], {"CRITICAL_ERROR"}) > 0
        /\ pc[t] = "done"
        /\ pc[u] \in {"tpsl", "trail"}
        /\ OkBuys(pair[u]) # {}
        /\ OkSells(pair[u]) = {}

\* the rows this run wrote to the trade log
RunRows == {i \in DOMAIN ledger : ledger[i].ts = "now"}

\* C12: position accounting uses the fill's values: the entry price the
\* take-profit and stop-loss thresholds are computed from is the price the
\* buy was filled at, and every row this run logs carries the fill price and
\* the amount of an accepted order of that side and pair.
C12_AccountingUsesFill ==
    /\ \A t \in Threads :
           pc[t] = "tpsl" =>
               \E i \in OkBuys(pair[t]) :
                   buy_price[t] = orders[pair[t]][i].fill
    /\ \A r \in RunRows :
           \E i \in DOMAIN orders[ledger[r].pair] :
               LET order == orders[ledger[r].pair][i]
               IN /\ order.ok
                  /\ order.side = ledger[r].type
                  /\ ledger[r].price = order.fill
                  /\ ledger[r].amount = order.amount

\* C13: the cooldown of a pair starts only when its exit monitoring has
\* ended, i.e. from trailing_sell's closing sell of a position that was
\* bought, never from the buy attempt; and from the first exit sell on and
\* during the cooldown no buy is submitted for the pair.
C13_CooldownAfterClose ==
    /\ [](\A t \in Threads : pc[t] = "cooldown" =>
             /\ OkBuys(pair[t]) # {}
             /\ \E i \in Sells(pair[t]) : orders[pair[t]][i].by = "TRAIL")
    /\ [][\A t \in Threads :
             /\ (pc'[t] = "cooldown" /\ pc[t] # "cooldown") =>
                    pc[t] \in {"trail", "trail_log"}
             /\ (Sells(pair[t]) # {} \/ pc[t] = "cooldown") =>
                    (orders'[pair[t]] # orders[pair[t]] =>
                        Last(orders'[pair[t]]).side # "BUY")]_vars

\* C13 witness: a thread is in its cooldown after the trailing stop's sell
\* of its position was accepted.
C13_Witness ==
    \E t \in Threads :
        /\ pc[t] = "cooldown"
        /\ \E i \in OkSells(pair[t]) : orders[pair[t]][i].by = "TRAIL"

Max(S) == CHOOSE x \in S : \A y \in S : x >= y

\* the price thread t's monitor reads in a step, None when it reads none:
\* the loops keep it in current_price, trailing_sell's first read in
\* highest_price
TickPrice(t) ==
    IF <<pc[t], current_price[t], highest_price[t], orders[pair[t]]>>
           = <<pc'[t], current_price'[t], highest_price'[t], orders'[pair[t]]>>
    THEN None
    ELSE IF pc[t] \in {"tpsl", "trail"} THEN current_price'[t]
    ELSE IF pc[t] = "trail_init" THEN highest_price'[t]
    ELSE None

\* the highest price the thread is known to have seen since entry: the
\* entry price, the prices its monitors submitted sells at, trailing_sell's
\* own high-water mark and the price of the tick
HighSinceEntry(t, price) ==
    Max({orders[pair[t]][i].price : i \in DOMAIN orders[pair[t]]}
        \cup {price}
        \cup (IF pc[t] = "trail" THEN {highest_price[t]} ELSE {}))

\* C14: while a position is open, a tick whose price is at or below the
\* high-water price since entry less the trailing percentage, and at which
\* neither take-profit nor stop-loss holds, submits the closing sell at that
\* price on that tick.
C14_TrailingStopOnEveryTick ==
    [][\A t \in Threads :
           LET price == TickPrice(t)
           IN (/\ price # None
               /\ OkBuys(pair[t]) # {}
               /\ OkSells(pair[t]) = {}
               /\ price * 100 <= StopPrice(HighSinceEntry(t, price))
               /\ ~TakeProfitHit(price, buy_price[t])
               /\ ~StopLossHit(price, buy_price[t])) =>
                  /\ orders'[pair[t]] # orders[pair[t]]
                  /\ Last(orders'[pair[t]]).side = "SELL"
                  /\ Last(orders'[pair[t]]).price = price]_vars

\* C15: every exit sell is submitted at the price its monitor read on the
\* tick that triggered it, a price at which the monitor's exit condition
\* holds, and for the amount that was bought for the position.
C15_SellAtTickPriceForFullAmount ==
    [][\A t \in Threads :
           (/\ orders'[pair[t]] # orders[pair[t]]
            /\ Last(orders'[pair[t]]).side = "SELL") =>
               LET order == Last(orders'[pair[t]])
               IN /\ order.price = TickPrice(t)
                  /\ order.by = "TP" => TakeProfitHit(order.price, buy_price[t])
                  /\ order.by = "SL" => StopLossHit(order.price, buy_price[t])
                  /\ order.by = "TRAIL" =>
                         order.price * 100 <= stop_price'[t]
                  /\ OkBuys(pair[t]) # {}
                  /\ \A i \in OkBuys(pair[t]) :
                         order.amount = orders[pair[t]][i].amount]_vars

\* C15 witness: the trailing stop's sell, below the entry price, has been
\* accepted for the amount that was bought.
C15_Witness ==
    \E p \in Pairs : \E i \in OkBuys(p) : \E j \in OkSells(p) :
        /\ orders[p][j].by = "TRAIL"
        /\ orders[p][j].amount = orders[p][i].amount
        /\ orders[p][j].price < orders[p][i].price

\* C16: after the exchange rejected a pair's buy the pair's entry logic
\* stays in the run: its thread has not ended, so that a later entry attempt
\* remains possible.
C16_EntryStaysPossibleAfterRejection ==
    \A t \in Threads :
        (Buys(pair[t]) # {} /\ OkBuys(pair[t]) = {}) => pc[t] # "done"

\* C17: under every interleaving of the threads' log_trade calls the trade
\* log is one header row followed by trade rows only, so check_total_profit
\* parses every row it reads.
C17_OneHeaderThenRows ==
    ledger # <<>> =>
        /\ ledger[1] = Header
        /\ ~Unparsable(Tail(ledger))

\* the thread is inside the body of `if buy_price:`, monitoring its position
Monitoring(t) ==
    pc[t] \in {"tpsl", "tp_log", "sl_log", "trail_init", "trail", "trail_log"}

\* C18: once the exchange has accepted a pair's buy, place_buy_order returns
\* the buy price and the thread enters exit monitoring, whether or not the
\* notification and the write of the trade log succeed.
C18_AcceptedBuyIsMonitored ==
    [][\A t \in Threads :
           (pc[t] = "buy_log" /\ pc'[t] # "buy_log") =>
               /\ buy_price'[t] = EntryPrice(pair[t])
               /\ Monitoring(t)']_vars

\* place_buy_order has returned None to thread t
BuyFailed(t) == pc[t] \in {"check", "done"} /\ buy_price[t] = None

\* C19: a sell is submitted for a pair only after a buy of that pair was
\* accepted in this run, and a thread whose place_buy_order failed monitors
\* nothing, sells nothing and has no cooldown.
C19_NoSellWithoutBuy ==
    /\ \A p \in Pairs : \A j \in Sells(p) : \E i \in OkBuys(p) : i < j
    /\ \A t \in Threads :
           /\ (Monitoring(t) \/ pc[t] = "cooldown") =>
                  (buy_price[t] # None /\ OkBuys(pair[t]) # {})
           /\ BuyFailed(t) =>
                  /\ Sells(pair[t]) = {}
                  /\ current_price[t] = None
                  /\ highest_price[t] = None
                  /\ Count(telegram[t], {"SOLD", "TAKE_PROFIT", "STOP_LOSS"}) = 0

\* C19 witness: one thread has ended after its place_buy_order failed on a
\* submitted order, and another pair's bought position has been sold.
C19_Witness ==
    \E t \in Threads : \E u \in Threads \ {t} :
        /\ pc[t] = "done"
        /\ BuyFailed(t)
        /\ Buys(pair[t]) # {}
        /\ OkSells(pair[u]) # {}

\* C20: place_buy_order does nothing with a missing or non-positive entry
\* price: no order is submitted at such a price, no row of this run is
\* logged with one, none is returned as buy price, and a thread that has
\* left place_buy_order without submitting an order has sent none of its
\* notifications and logged no row.
C20_InvalidPriceBuysNothing ==
    /\ \A p \in Pairs : \A i \in Buys(p) : orders[p][i].price > 0
    /\ \A r \in RunRows : ledger[r].price > 0
    /\ \A t \in Threads :
           /\ buy_price[t] = None \/ buy_price[t] > 0
           /\ (pc[t] \in {"check", "done"} /\ Buys(pair[t]) = {}) =>
                  /\ buy_price[t] = None
                  /\ Count(telegram[t], {"BOUGHT", "ORDER_FAILED"}) = 0
                  /\ \A r \in RunRows : ledger[r].pair # pair[t]

\* C20 witness: a thread has left place_buy_order on an invalid price, with
\* no order submitted for its pair, and has ended.
C20_Witness ==
    \E t \in Threads :
        /\ pc[t] = "done"
        /\ Buys(pair[t]) = {}
====
